---- MODULE Spec2Model ----
(***************************************************************************)
(* Model of the command-line habit tracker (src/habit_tracker/src/main.rs).*)
(* Every invocation of the binary is a process that loads habits.json,     *)
(* runs one command on its in-memory HabitTracker and, for add / done,     *)
(* writes the file back.  Dates are chrono NaiveDate values; completion    *)
(* entries are the byte strings produced by format("%Y-%m-%d").            *)
(***************************************************************************)
EXTENDS Integers, Sequences, FiniteSets, TLC

\* ------------------------------------------------------------------ bounds
Names == {"a", "b"}      \* habit names given on the command line
Procs == {1, 2}          \* invocations that may be in progress at once
MaxDays == 3             \* number of calendar days the clock ranges over
MaxRuns == 3             \* invocations started in one behaviour
MaxLen == 3              \* completion entries of a hand-edited habit

\* ------------------------------------------------- chrono::NaiveDate values
NaiveDate(y, m, d) == [y |-> y, m |-> m, d |-> d]

IsLeap(y) == (y % 4 = 0 /\ y % 100 # 0) \/ y % 400 = 0

DaysInMonth(y, m) ==
  IF m = 2 THEN (IF IsLeap(y) THEN 29 ELSE 28)
  ELSE IF m \in {4, 6, 9, 11} THEN 30 ELSE 31

\* NaiveDate::pred_opt().unwrap(): the previous calendar day
pred_opt(dt) ==
  IF dt.d > 1 THEN NaiveDate(dt.y, dt.m, dt.d - 1)
  ELSE IF dt.m > 1 THEN NaiveDate(dt.y, dt.m - 1, DaysInMonth(dt.y, dt.m - 1))
  ELSE NaiveDate(dt.y - 1, 12, 31)

\* The latest day of the modelled window; the window straddles a year end.
LastDay == NaiveDate(2024, 1, 1)

RECURSIVE DaysBack(_, _)
DaysBack(dt, n) == IF n = 0 THEN dt ELSE DaysBack(pred_opt(dt), n - 1)

Window == {DaysBack(LastDay, i) : i \in 0..(MaxDays - 1)}

\* ------------------------------------------------ strings as byte sequences
Dash == 45
Digit(n) == 48 + n
IsDigit(c) == c \in 48..57

RECURSIVE Pow10(_)
Pow10(n) == IF n = 0 THEN 1 ELSE 10 * Pow10(n - 1)

Pad(n, w) == [i \in 1..w |-> Digit((n \div Pow10(w - i)) % 10)]

\* chrono format("%Y-%m-%d").to_string() for years 0..9999
format(dt) == Pad(dt.y, 4) \o <<Dash>> \o Pad(dt.m, 2) \o <<Dash>> \o Pad(dt.d, 2)

RECURSIVE Num(_)
Num(s) == IF s = <<>> THEN 0 ELSE 10 * Num(SubSeq(s, 1, Len(s) - 1)) + (s[Len(s)] - 48)

ParseErr == [ok |-> FALSE, date |-> NaiveDate(0, 0, 0)]

\* chrono::NaiveDate::parse_from_str(s, "%Y-%m-%d") on ten-byte strings:
\* Ok(date) for a well-formed string naming a real calendar day, Err otherwise.
parse_from_str(s) ==
  IF /\ Len(s) = 10
     /\ s[5] = Dash /\ s[8] = Dash
     /\ \A i \in {1, 2, 3, 4, 6, 7, 9, 10} : IsDigit(s[i])
  THEN LET y == Num(SubSeq(s, 1, 4))
           m == Num(SubSeq(s, 6, 7))
           d == Num(SubSeq(s, 9, 10))
       IN IF m \in 1..12 /\ d >= 1 /\ d <= DaysInMonth(y, m)
          THEN [ok |-> TRUE, date |-> NaiveDate(y, m, d)]
          ELSE ParseErr
  ELSE ParseErr

\* Ord for String: bytewise lexicographic order
RECURSIVE StrLeq(_, _)
StrLeq(a, b) ==
  IF a = <<>> THEN TRUE
  ELSE IF b = <<>> THEN FALSE
  ELSE IF Head(a) < Head(b) THEN TRUE
  ELSE IF Head(a) > Head(b) THEN FALSE
  ELSE StrLeq(Tail(a), Tail(b))

RECURSIVE Insert(_, _)
Insert(x, s) ==
  IF s = <<>> THEN <<x>>
  ELSE IF StrLeq(x, Head(s)) THEN <<x>> \o s
  ELSE <<Head(s)>> \o Insert(x, Tail(s))

\* Vec<String>::sort(): ascending
RECURSIVE sort(_)
sort(s) == IF s = <<>> THEN <<>> ELSE Insert(Head(s), sort(Tail(s)))

\* Vec::reverse()
reverse(s) == [i \in 1..Len(s) |-> s[Len(s) + 1 - i]]

\* Vec::contains()
contains(s, x) == \E i \in 1..Len(s) : s[i] = x

\* ------------------------------------------------------------------- Habit
\* Habit::new that leaves the name field empty
Habit_new_unnamed(name) == [name |-> "", completions |-> <<>>]

\* Habit::new
Habit_new(name) == [name |-> name, completions |-> <<>>]

\* the for loop of calculate_streak over sorted_completions
RECURSIVE StreakWalk(_, _, _)
StreakWalk(sorted_completions, current_date, streak) ==
  IF sorted_completions = <<>> THEN streak
  ELSE LET completion_date == parse_from_str(Head(sorted_completions))
       IN IF completion_date.ok
          THEN IF completion_date.date = current_date
               THEN StreakWalk(Tail(sorted_completions), pred_opt(current_date), streak + 1)
               ELSE streak
          ELSE StreakWalk(Tail(sorted_completions), current_date, streak)

\* Habit::calculate_streak, with the clock reading passed as now
calculate_streak(habit, now) ==
  IF habit.completions = <<>> THEN 0
  ELSE StreakWalk(reverse(sort(habit.completions)), now, 0)

\* ------------------------------------------------------------ HabitTracker
\* HabitTracker::new: the empty habits map
HabitTracker_new == [n \in {} |-> Habit_new("")]

NoDate == <<>>

Msg(m, n, ks, rs) == [msg |-> m, name |-> n, names |-> ks, rows |-> rs]
NoRows == [n \in {} |-> [total |-> 0, streak |-> 0]]
NoOutput == Msg("none", "", {}, NoRows)

\* add_habit without the contains_key guard: insert replaces the habit
add_habit_overwrite(habits, name) ==
  [habits |-> [k \in DOMAIN habits \cup {name} |->
                 IF k = name THEN [name |-> name, completions |-> <<>>] ELSE habits[k]],
   out |-> Msg(IF name \in DOMAIN habits THEN "exists" ELSE "added", name, {}, NoRows)]

\* HabitTracker::add_habit: the new map and the line printed
add_habit(habits, name) ==
  IF name \in DOMAIN habits
  THEN [habits |-> habits, out |-> Msg("exists", name, {}, NoRows)]
  ELSE [habits |-> [k \in DOMAIN habits \cup {name} |->
                      IF k = name THEN Habit_new(name) ELSE habits[k]],
        out |-> Msg("added", name, {}, NoRows)]

\* mark_done without the contains guard: today is pushed every time
mark_done_unguarded(habits, name, now) ==
  IF name \in DOMAIN habits
  THEN [habits |-> [habits EXCEPT ![name].completions = Append(@, format(now))],
        out |-> Msg(IF contains(habits[name].completions, format(now))
                    THEN "already" ELSE "done", name, {}, NoRows)]
  ELSE [habits |-> habits, out |-> Msg("notfound", name, {}, NoRows)]

\* mark_done that creates the habit when the name is unknown
mark_done_upsert(habits, name, now) ==
  IF name \in DOMAIN habits
  THEN IF contains(habits[name].completions, format(now))
       THEN [habits |-> habits, out |-> Msg("already", name, {}, NoRows)]
       ELSE [habits |-> [habits EXCEPT ![name].completions = Append(@, format(now))],
             out |-> Msg("done", name, {}, NoRows)]
  ELSE [habits |-> [k \in DOMAIN habits \cup {name} |->
                      IF k = name THEN [name |-> name, completions |-> <<format(now)>>]
                      ELSE habits[k]],
        out |-> Msg("notfound", name, {}, NoRows)]

\* HabitTracker::mark_done, with the clock reading passed as now
mark_done(habits, name, now) ==
  IF name \in DOMAIN habits
  THEN LET today_str == format(now)
       IN IF contains(habits[name].completions, today_str)
          THEN [habits |-> habits, out |-> Msg("already", name, {}, NoRows)]
          ELSE [habits |-> [habits EXCEPT ![name].completions = Append(@, today_str)],
                out |-> Msg("done", name, {}, NoRows)]
  ELSE [habits |-> habits, out |-> Msg("notfound", name, {}, NoRows)]

\* HabitTracker::show_stats: the table printed (row order is not modelled)
show_stats(habits, now) ==
  IF DOMAIN habits = {} THEN Msg("nohabits", "", {}, NoRows)
  ELSE Msg("stats", "", DOMAIN habits,
           [n \in DOMAIN habits |->
              [total |-> Len(habits[n].completions),
               streak |-> calculate_streak(habits[n], now)]])

\* HabitTracker::list_habits: the names printed
list_habits(habits) ==
  IF DOMAIN habits = {} THEN Msg("nohabits", "", {}, NoRows)
  ELSE Msg("list", "", DOMAIN habits, NoRows)

\* ----------------------------------------------------------- habits.json
\* The file is absent, holds text serde_json rejects, or holds a JSON object
\* whose members are listed in the order they were written.
Absent == [kind |-> "absent", entries |-> <<>>]
Corrupt == [kind |-> "corrupt", entries |-> <<>>]

\* the orders in which a HashMap with key set S may be iterated
Orders(S) == {o \in [1..Cardinality(S) -> S] : \A i, j \in DOMAIN o : i # j => o[i] # o[j]}

\* a serializer that skips the completions field
to_string_pretty_skip(habits, o) ==
  [kind |-> "json",
   entries |-> [i \in DOMAIN o |-> [key |-> o[i],
                                    name |-> habits[o[i]].name,
                                    completions |-> <<>>]]]

\* serde_json::to_string_pretty(&self), members written in iteration order o
to_string_pretty(habits, o) ==
  [kind |-> "json",
   entries |-> [i \in DOMAIN o |-> [key |-> o[i],
                                    name |-> habits[o[i]].name,
                                    completions |-> habits[o[i]].completions]]]

\* serde_json::from_str into HashMap<String, Habit>: members inserted in file
\* order, a repeated key replacing the earlier member
RECURSIVE from_str(_)
from_str(entries) ==
  IF entries = <<>> THEN HabitTracker_new
  ELSE LET rest == from_str(SubSeq(entries, 1, Len(entries) - 1))
           e == entries[Len(entries)]
       IN [k \in DOMAIN rest \cup {e.key} |->
             IF k = e.key THEN [name |-> e.name, completions |-> e.completions]
             ELSE rest[k]]

\* a load that ignores the file and starts from HabitTracker::new
load_fresh(f) == [habits |-> HabitTracker_new, err |-> FALSE]

\* HabitTracker::load followed by main's unwrap_or_else
load(f) ==
  IF f.kind = "absent" THEN [habits |-> HabitTracker_new, err |-> FALSE]
  ELSE IF f.kind = "corrupt" THEN [habits |-> HabitTracker_new, err |-> TRUE]
  ELSE [habits |-> from_str(f.entries), err |-> FALSE]

\* ------------------------------------------------------------------- state
VARIABLES
  file,        \* content of habits.json
  today,       \* the local calendar day chrono::Local::now() reports
  pc,          \* per invocation: "idle", "op" (loaded), "save" (command run)
  cmd,         \* per invocation: the parsed Commands value
  tracker,     \* per invocation: the habits map of its HabitTracker
  stdout,      \* per invocation: the line or table it printed
  stderr,      \* per invocation: TRUE when "Error loading habits" was printed
  runs,        \* invocations started so far
  reported,    \* successful mutations announced on stdout so far
  overlapped   \* TRUE once an invocation started while another was running

vars == <<file, today, pc, cmd, tracker, stdout, stderr, runs, reported, overlapped>>

Commands ==
  {[op |-> o, name |-> n] : o \in {"add", "done"}, n \in Names}
    \cup {[op |-> "stats", name |-> ""], [op |-> "list", name |-> ""]}

Init ==
  /\ file \in {Absent, Corrupt}
  /\ today \in Window
  /\ pc = [p \in Procs |-> "idle"]
  /\ cmd = [p \in Procs |-> [op |-> "list", name |-> ""]]
  /\ tracker = [p \in Procs |-> HabitTracker_new]
  /\ stdout = [p \in Procs |-> NoOutput]
  /\ stderr = [p \in Procs |-> FALSE]
  /\ runs = 0
  /\ reported = {}
  /\ overlapped = FALSE

\* main, lines 243-249: parse the command line and load the file
MainLoad(p, c) ==
  /\ pc[p] = "idle"
  /\ runs < MaxRuns
  /\ LET r == load(file)
     IN /\ tracker' = [tracker EXCEPT ![p] = r.habits]
        /\ stderr' = [stderr EXCEPT ![p] = r.err]
  /\ cmd' = [cmd EXCEPT ![p] = c]
  /\ stdout' = [stdout EXCEPT ![p] = NoOutput]
  /\ pc' = [pc EXCEPT ![p] = "op"]
  /\ runs' = runs + 1
  /\ overlapped' = (overlapped \/ \E q \in Procs \ {p} : pc[q] # "idle")
  /\ UNCHANGED <<file, today, reported>>

\* main, Commands::Add arm up to the call of save
MainAdd(p) ==
  /\ pc[p] = "op"
  /\ cmd[p].op = "add"
  /\ LET r == add_habit(tracker[p], cmd[p].name)
     IN /\ tracker' = [tracker EXCEPT ![p] = r.habits]
        /\ stdout' = [stdout EXCEPT ![p] = r.out]
        /\ reported' = IF r.out.msg = "added"
                       THEN reported \cup {[kind |-> "add", name |-> cmd[p].name, date |-> NoDate]}
                       ELSE reported
  /\ pc' = [pc EXCEPT ![p] = "save"]
  /\ UNCHANGED <<file, today, cmd, stderr, runs, overlapped>>

\* main, Commands::Done arm up to the call of save
MainDone(p) ==
  /\ pc[p] = "op"
  /\ cmd[p].op = "done"
  /\ LET r == mark_done(tracker[p], cmd[p].name, today)
     IN /\ tracker' = [tracker EXCEPT ![p] = r.habits]
        /\ stdout' = [stdout EXCEPT ![p] = r.out]
        /\ reported' = IF r.out.msg = "done"
                       THEN reported \cup {[kind |-> "done", name |-> cmd[p].name, date |-> format(today)]}
                       ELSE reported
  /\ pc' = [pc EXCEPT ![p] = "save"]
  /\ UNCHANGED <<file, today, cmd, stderr, runs, overlapped>>

\* a Stats arm that goes on to save like the mutating arms
MainStats_saving(p) ==
  /\ pc[p] = "op"
  /\ cmd[p].op = "stats"
  /\ stdout' = [stdout EXCEPT ![p] = show_stats(tracker[p], today)]
  /\ pc' = [pc EXCEPT ![p] = "save"]
  /\ UNCHANGED <<file, today, cmd, tracker, stderr, runs, reported, overlapped>>

\* main, Commands::Stats arm: print and exit
MainStats(p) ==
  /\ pc[p] = "op"
  /\ cmd[p].op = "stats"
  /\ stdout' = [stdout EXCEPT ![p] = show_stats(tracker[p], today)]
  /\ tracker' = [tracker EXCEPT ![p] = HabitTracker_new]
  /\ pc' = [pc EXCEPT ![p] = "idle"]
  /\ UNCHANGED <<file, today, cmd, stderr, runs, reported, overlapped>>

\* main, Commands::List arm: print and exit
MainList(p) ==
  /\ pc[p] = "op"
  /\ cmd[p].op = "list"
  /\ stdout' = [stdout EXCEPT ![p] = list_habits(tracker[p])]
  /\ tracker' = [tracker EXCEPT ![p] = HabitTracker_new]
  /\ pc' = [pc EXCEPT ![p] = "idle"]
  /\ UNCHANGED <<file, today, cmd, stderr, runs, reported, overlapped>>

\* a save that leaves the file alone when the load had failed
MainSave_keep_unreadable(p) ==
  /\ pc[p] = "save"
  /\ IF stderr[p]
     THEN file' = file
     ELSE \E o \in Orders(DOMAIN tracker[p]) : file' = to_string_pretty(tracker[p], o)
  /\ tracker' = [tracker EXCEPT ![p] = HabitTracker_new]
  /\ pc' = [pc EXCEPT ![p] = "idle"]
  /\ UNCHANGED <<today, cmd, stdout, stderr, runs, reported, overlapped>>

\* HabitTracker::save called from main, then exit
MainSave(p) ==
  /\ pc[p] = "save"
  /\ \E o \in Orders(DOMAIN tracker[p]) : file' = to_string_pretty(tracker[p], o)
  /\ tracker' = [tracker EXCEPT ![p] = HabitTracker_new]
  /\ pc' = [pc EXCEPT ![p] = "idle"]
  /\ UNCHANGED <<today, cmd, stdout, stderr, runs, reported, overlapped>>

\* the wall clock moves to another local day (it is not monotonic)
Tick ==
  /\ \E d \in Window \ {today} : today' = d
  /\ UNCHANGED <<file, pc, cmd, tracker, stdout, stderr, runs, reported, overlapped>>

Next ==
  \/ \E p \in Procs : \E c \in Commands : MainLoad(p, c)
  \/ \E p \in Procs : MainAdd(p)
  \/ \E p \in Procs : MainDone(p)
  \/ \E p \in Procs : MainStats(p)
  \/ \E p \in Procs : MainList(p)
  \/ \E p \in Procs : MainSave(p)
  \/ Tick

Spec == Init /\ [][Next]_vars


\* ------------------------------------- read-only use of a hand-edited file
\* A ten-byte entry that names no calendar day ("2023-12-32").
InvalidDate == Pad(2023, 4) \o <<Dash>> \o Pad(12, 2) \o <<Dash>> \o Pad(32, 2)

EditedStrings == {format(d) : d \in Window} \cup {InvalidDate}

SeqsUpTo(S, n) == UNION {[1..k -> S] : k \in 0..n}

\* habits.json as an editor may leave it: one habit, any list of entries
InitEdited ==
  /\ \E c \in SeqsUpTo(EditedStrings, MaxLen) :
       file = [kind |-> "json",
               entries |-> <<[key |-> "a", name |-> "a", completions |-> c]>>]
  /\ today \in Window
  /\ pc = [p \in Procs |-> "idle"]
  /\ cmd = [p \in Procs |-> [op |-> "list", name |-> ""]]
  /\ tracker = [p \in Procs |-> HabitTracker_new]
  /\ stdout = [p \in Procs |-> NoOutput]
  /\ stderr = [p \in Procs |-> FALSE]
  /\ runs = 0
  /\ reported = {}
  /\ overlapped = FALSE

NextEdited ==
  \/ \E p \in Procs : \E c \in {[op |-> "stats", name |-> ""], [op |-> "list", name |-> ""]} :
       MainLoad(p, c)
  \/ \E p \in Procs : MainStats(p)
  \/ \E p \in Procs : MainList(p)
  \/ Tick

SpecEdited == InitEdited /\ [][NextEdited]_vars

\* ------------------------------------------------- vocabulary of the claims
NoDup(s) == \A i, j \in 1..Len(s) : i # j => s[i] # s[j]

Count(s, x) == Cardinality({i \in 1..Len(s) : s[i] = x})

Elems(s) == {s[i] : i \in 1..Len(s)}

Canonical(s) == parse_from_str(s).ok /\ format(parse_from_str(s).date) = s

AllCanonical(c) == \A i \in 1..Len(c) : Canonical(c[i])

DateSet(c) == {parse_from_str(c[i]).date : i \in 1..Len(c)}

\* the largest k with t, t-1, ..., t-(k-1) all in dates
RECURSIVE LongestRun(_, _)
LongestRun(dates, t) == IF t \in dates THEN 1 + LongestRun(dates, pred_opt(t)) ELSE 0

RECURSIVE Dedup(_)
Dedup(c) ==
  IF c = <<>> THEN <<>>
  ELSE LET init == Dedup(SubSeq(c, 1, Len(c) - 1))
       IN IF contains(init, c[Len(c)]) THEN init ELSE Append(init, c[Len(c)])

FileStore == from_str(file.entries)

AllIdle == \A p \in Procs : pc[p] = "idle"

\* the step in which invocation p runs its command
RunsCommand(p, o) == pc[p] = "op" /\ cmd[p].op = o /\ pc'[p] # "op"

\* the step in which invocation p writes the file and exits
Saves(p) == pc[p] = "save" /\ pc'[p] = "idle"

\* ------------------------------------------------------------------ claims

\* C1: every habit's completion list, in memory and in the file, holds each
\* date at most once; a done on a day already recorded leaves the list as it
\* was, with exactly one occurrence of that day.
C1_NoDuplicateDates ==
  /\ \A p \in Procs : \A n \in DOMAIN tracker[p] : NoDup(tracker[p][n].completions)
  /\ \A i \in 1..Len(file.entries) : NoDup(file.entries[i].completions)

C1_SecondDoneStep ==
  \A p \in Procs :
    (/\ RunsCommand(p, "done")
     /\ cmd[p].name \in DOMAIN tracker[p]
     /\ contains(tracker[p][cmd[p].name].completions, format(today)))
    => /\ tracker'[p] = tracker[p]
       /\ Count(tracker'[p][cmd[p].name].completions, format(today)) = 1
       /\ stdout'[p].msg = "already"

C1_DoneOncePerDay == [][C1_NoDuplicateDates /\ C1_NoDuplicateDates' /\ C1_SecondDoneStep]_vars

C1_Witness ==
  \E p \in Procs :
    /\ pc[p] = "save"
    /\ stdout[p].msg = "already"
    /\ Count(tracker[p][cmd[p].name].completions, format(today)) = 1

\* C2: for a duplicate-free list of canonical dates, the streak printed by
\* stats is the largest k such that today, today-1, ..., today-(k-1) are all
\* in the list.
C2_StreakIsLongestRun ==
  [][\A p \in Procs :
       RunsCommand(p, "stats") =>
         \A n \in DOMAIN tracker[p] :
           LET c == tracker[p][n].completions
           IN (NoDup(c) /\ AllCanonical(c))
              => stdout'[p].rows[n].streak = LongestRun(DateSet(c), today)]_vars

\* C3: done for a name that is not a key leaves the habits map as it was.
C3_DoneUnknownKeepsStore ==
  [][\A p \in Procs :
       (RunsCommand(p, "done") /\ cmd[p].name \notin DOMAIN tracker[p])
       => /\ tracker'[p] = tracker[p]
          /\ stdout'[p].msg = "notfound"]_vars

C3_Witness ==
  \E p \in Procs :
    /\ pc[p] = "save"
    /\ stdout[p].msg = "notfound"
    /\ \E n \in DOMAIN tracker[p] : tracker[p][n].completions # <<>>

\* C4: add of an existing name changes nothing; add of a new name creates
\* exactly that habit, with zero completions, and leaves the others alone.
C4_AddExistingIsNoop ==
  [][\A p \in Procs :
       RunsCommand(p, "add") =>
         IF cmd[p].name \in DOMAIN tracker[p]
         THEN tracker'[p] = tracker[p]
         ELSE /\ DOMAIN tracker'[p] = DOMAIN tracker[p] \cup {cmd[p].name}
              /\ tracker'[p][cmd[p].name].completions = <<>>
              /\ \A k \in DOMAIN tracker[p] : tracker'[p][k] = tracker[p][k]]_vars

C4_Witness ==
  \E p \in Procs :
    /\ pc[p] = "save"
    /\ stdout[p].msg = "exists"
    /\ tracker[p][cmd[p].name].completions # <<>>

\* C5: an add or done invocation goes on to save after its command and the
\* save writes its store; a stats or list invocation exits without touching
\* the file; the file changes in no other step.
C5_SaveOnlyAfterAddOrDone ==
  [][/\ \A p \in Procs :
          /\ (RunsCommand(p, "add") \/ RunsCommand(p, "done"))
               => pc'[p] = "save" /\ file' = file
          /\ (RunsCommand(p, "stats") \/ RunsCommand(p, "list"))
               => pc'[p] = "idle" /\ file' = file
          /\ Saves(p) => file'.kind = "json" /\ from_str(file'.entries) = tracker[p]
     /\ file' # file => \E p \in Procs : Saves(p) /\ cmd[p].op \in {"add", "done"}]_vars

C5_Witness ==
  \E p \in Procs :
    /\ pc[p] = "idle"
    /\ cmd[p].op \in {"stats", "list"}
    /\ stdout[p].msg = "nohabits"
    /\ stderr[p]
    /\ file = Corrupt

\* C6: loading the file a save has just written gives the saved habit names
\* and, for each habit, the saved set of completion dates.
C6_SaveLoadRoundTrip ==
  [][\A p \in Procs :
       Saves(p) =>
         LET l == load(file')
         IN /\ ~l.err
            /\ DOMAIN l.habits = DOMAIN tracker[p]
            /\ \A n \in DOMAIN tracker[p] :
                 Elems(l.habits[n].completions) = Elems(tracker[p][n].completions)]_vars

C6_Witness ==
  /\ file.kind = "json"
  /\ Len(file.entries) = 2
  /\ \E i \in 1..2 : file.entries[i].completions # <<>>

\* C7: with the file missing or unparseable the invocation still runs its
\* command, on an empty store, with a diagnostic only in the unparseable
\* case; the save of an invocation whose load failed leaves in the file
\* exactly the store its command builds from empty.
BuiltFromEmpty(c) ==
  IF c.op = "add"
  THEN [n \in {c.name} |-> [name |-> n, completions |-> <<>>]]
  ELSE [n \in {} |-> [name |-> n, completions |-> <<>>]]

InStore(r, habits) ==
  /\ r.name \in DOMAIN habits
  /\ r.kind = "done" => contains(habits[r.name].completions, r.date)

Lost(r) ==
  /\ ~(file.kind = "json" /\ InStore(r, FileStore))
  /\ \A p \in Procs : ~(pc[p] = "save" /\ InStore(r, tracker[p]))

C9_KeyEqualsName ==
  /\ \A p \in Procs : \A k \in DOMAIN tracker[p] : tracker[p][k].name = k
  /\ \A i \in 1..Len(file.entries) : file.entries[i].key = file.entries[i].name

C9_Witness ==
  /\ file.kind = "json"
  /\ Len(file.entries) = 2
  /\ \E p \in Procs : pc[p] = "op" /\ Cardinality(DOMAIN tracker[p]) = 2

\* C10: for a list of canonical dates, the streak printed by stats equals the
\* streak of the same list with repeated dates removed.
C10_DuplicatesNotCounted ==
  [][\A p \in Procs :
       RunsCommand(p, "stats") =>
         \A n \in DOMAIN tracker[p] :
           LET h == tracker[p][n]
           IN AllCanonical(h.completions)
              => stdout'[p].rows[n].streak =
                   calculate_streak([h EXCEPT !.completions = Dedup(h.completions)], today)]_vars
====
